---- MODULE Spec2Model ----
(***************************************************************************)
(* rotatelogs: LogRotator (new / write_line / rotate) and the driving loop *)
(* of main, modelled from src/src/main.rs.                                 *)
(*                                                                         *)
(* A file is a sequence of bytes (numbers).  The directory is a function   *)
(* from a path index to an Option: <<>> when no file exists at that path,  *)
(* <<data>> when a file with content data exists.  Index 0 is base_path,   *)
(* index i >= 1 is format!("{}.{}", base_path, i).                         *)
(* Rust Option values are modelled the same way: <<>> is None, <<v>> is    *)
(* Some(v).                                                                *)
(***************************************************************************)
EXTENDS Integers, Sequences, FiniteSets, TLC

VARIABLES
    fs,             \* the directory: path index -> Option<file content>
    max_size,       \* LogRotator.max_size (u64, 0 = disabled)
    max_lines,      \* LogRotator.max_lines (Option<u64>)
    max_count,      \* LogRotator.max_count (usize)
    current_file,   \* LogRotator.current_file (Option<BufWriter<File>>)
    current_size,   \* LogRotator.current_size
    current_lines,  \* LogRotator.current_lines
    args_rotate,    \* Args.rotate
    rotate_flag,    \* the AtomicBool set by the SIGHUP handler
    line,           \* main: the input line of the current loop iteration
    pc,             \* position of the caller (test harness or main)
    initial,        \* history: content of base_path before construction (Option)
    hist,           \* history: the calls made on the rotator, in order
    epochs,         \* history: content of base_path at the start of each rotation
    unserved,       \* history: Option<input lines written since a SIGHUP that
                    \*          no rotation has followed yet>
    rpc,            \* position inside the call in progress ("idle" = none)
    ri,             \* rotate: the loop variable i
    handles,        \* the handles currently open on base_path
    inodes,         \* the file object found at each path, and the next new one
    ret,            \* what the last call returned: "none", "ok" or "err"
    failures,       \* number of failed system calls so far
    pre,            \* history: the directory when the call in progress began
    partial         \* history: a failed fs::copy left an incomplete target

\* the state of the step-by-step execution of a call
stepvars == << rpc, ri, handles, inodes, ret, failures, pre, partial >>

vars == << fs, max_size, max_lines, max_count, current_file, current_size,
           current_lines, args_rotate, rotate_flag, line, pc, initial, hist,
           epochs, unserved, stepvars >>

----------------------------------------------------------------------------
(* Bounds of the model *)

MaxSizeArg == 3     \* --size ranges over 0..MaxSizeArg
MaxLinesArg == 3    \* --lines ranges over None and Some(0..MaxLinesArg)
MaxCountArg == 2    \* --count ranges over 0..MaxCountArg
MaxCalls == 4       \* calls made on one rotator by the harness
MaxInput == 2       \* input lines read by main

NL == 10            \* b'\n'

\* input lines (no embedded newline): "", "a", "bc"
Lines == { <<>>, <<97>>, <<98, 99>> }

\* content of base_path before the program starts; <<>> = no such file
InitialFiles ==
    { <<>>,
      << <<>> >>,
      << <<120, NL>> >>,
      << <<120>> >>,
      << <<120, NL, 121, NL>> >>,
      << <<120, NL, 121>> >>,
      << <<NL, 120, NL, 121, NL>> >> }

Paths == 0 .. (MaxCountArg + 1)

None == <<>>
Some(v) == <<v>>

----------------------------------------------------------------------------
(* The file system *)

Exists(f, i) == f[i] # None
Data(f, i) == f[i][1]

\* fs::remove_file
RemoveFile(f, i) == [f EXCEPT ![i] = None]

\* fs::rename: the target is replaced if it exists
Rename(f, from, to) == [f EXCEPT ![to] = f[from], ![from] = None]

\* fs::copy: the target is created or overwritten
Copy(f, from, to) == [f EXCEPT ![to] = f[from]]

\* OpenOptions::new().write(true).truncate(true).open(..) + set_len(0)
Truncate(f, i) == [f EXCEPT ![i] = Some(<<>>)]

\* OpenOptions::new().create(true).append(true).open(..)
OpenAppend(f, i) == IF Exists(f, i) THEN f ELSE [f EXCEPT ![i] = Some(<<>>)]

\* writer.write_all(line_bytes); writer.write_all(b"\n"); writer.flush()
AppendLine(f, i, l) == [f EXCEPT ![i] = Some(Data(f, i) \o l \o <<NL>>)]

----------------------------------------------------------------------------
(* LogRotator::new: counting the lines of an existing file *)

\* reader.read_until(b'\n', ..): number of bytes read starting at position p
\* (up to and including the first newline, or up to the end of the data)
ReadUntil(data, p) ==
    IF \E j \in p .. Len(data) : data[j] = NL
    THEN (CHOOSE j \in p .. Len(data) :
              /\ data[j] = NL
              /\ \A k \in p .. (j - 1) : data[k] # NL) - p + 1
    ELSE Len(data) - p + 1

RECURSIVE CountLinesFrom(_, _, _)
CountLinesFrom(data, p, n) ==
    LET got == ReadUntil(data, p) IN
    IF got <= 0 THEN n
    ELSE CountLinesFrom(data, p + got,
                        IF data[p + got - 1] = NL THEN n + 1 ELSE n)

\* mutant: no scan, a pre-existing file is taken to hold no line
CountLinesZero(data) == 0

\* mutant: every chunk read counts, an unterminated last line included
CountLinesWithPartial(data) ==
    IF Len(data) = 0 THEN 0
    ELSE Cardinality({ j \in 1 .. Len(data) : data[j] = NL })
             + (IF data[Len(data)] = NL THEN 0 ELSE 1)

CountLines(data) == IF Len(data) > 0 THEN CountLinesFrom(data, 1, 0) ELSE 0

----------------------------------------------------------------------------
(* LogRotator::rotate *)

\* one iteration of the loop over the backups
ShiftStep(f, i, n) ==
    IF Exists(f, i)
    THEN IF i = n THEN RemoveFile(f, i) ELSE Rename(f, i, i + 1)
    ELSE f

\* mutant: the loop runs from 1 upwards, each rename clobbering the next
RECURSIVE ShiftUpFrom(_, _, _)
ShiftUpFrom(f, i, n) ==
    IF i > n THEN f ELSE ShiftUpFrom(ShiftStep(f, i, n), i + 1, n)

ShiftAscending(f, i, n) == ShiftUpFrom(f, 1, n)

\* for i in (1..=max_count).rev(), entered at index i
RECURSIVE ShiftFrom(_, _, _)
ShiftFrom(f, i, n) ==
    IF i < 1 THEN f ELSE ShiftFrom(ShiftStep(f, i, n), i - 1, n)

\* mutant: the file is truncated before it is copied
TruncateThenCopy(f) ==
    IF Exists(f, 0) THEN Copy(Truncate(f, 0), 0, 1) ELSE f

\* copy the current file to .1 and then truncate it
CopyTruncate(f) ==
    IF Exists(f, 0) THEN Truncate(Copy(f, 0, 1), 0) ELSE f

\* the directory after a successful rotate()
RotateFs(f, n) == OpenAppend(CopyTruncate(ShiftFrom(f, n, n)), 0)

\* mutant: rotation as soon as the size reaches max_size
SizeExceededAtLimit(size) == max_size > 0 /\ size >= max_size

\* mutant: rotation only once the line count is above max_lines
LinesExceededStrict(lines) == max_lines # None /\ lines > max_lines[1]

\* size_exceeded and lines_exceeded of write_line
SizeExceeded(size) == max_size > 0 /\ size > max_size
LinesExceeded(lines) == max_lines # None /\ lines >= max_lines[1]

----------------------------------------------------------------------------
(* Initial states: the arguments and the directory before the program runs *)

Handle == Some(0)   \* an open append-mode writer on base_path (path index 0)

StartWith(f0, sizes, limits, counts) ==
    /\ initial = f0
    /\ fs = [i \in Paths |-> IF i = 0 THEN f0 ELSE None]
    /\ max_size \in sizes
    /\ max_lines \in limits
    /\ max_count \in counts
    /\ current_file = None
    /\ current_size = 0
    /\ current_lines = 0
    /\ rotate_flag = FALSE
    /\ line = <<>>
    /\ pc = "init"
    /\ hist = <<>>
    /\ epochs = <<>>
    /\ unserved = None
    /\ rpc = "idle"
    /\ ri = 0
    /\ handles = {}
    /\ inodes = [at |-> [i \in Paths |-> IF fs[i] = None THEN 0 ELSE i + 1],
                 next |-> MaxCountArg + 3]
    /\ ret = "none"
    /\ failures = 0
    /\ pre = fs
    /\ partial = FALSE

LineLimits == { None } \cup { Some(n) : n \in 0 .. MaxLinesArg }

Init ==
    /\ args_rotate = FALSE
    /\ \E f0 \in InitialFiles :
           StartWith(f0, 0 .. MaxSizeArg, LineLimits, 0 .. MaxCountArg)

----------------------------------------------------------------------------
(* The operations of LogRotator, as effects on the rotator and directory *)

\* LogRotator::new
Construct ==
    LET f1 == OpenAppend(fs, 0)
        size == Len(Data(f1, 0))
    IN  /\ fs' = f1
        /\ current_file' = Handle
        /\ current_size' = size
        /\ current_lines' = CountLines(Data(f1, 0))
        /\ UNCHANGED << max_size, max_lines, max_count, epochs, hist >>

\* LogRotator::rotate, called by the harness or by main (via says by whom)
DoRotate(via) ==
    /\ fs' = RotateFs(fs, max_count)
    /\ current_file' = Handle
    /\ current_size' = 0
    /\ current_lines' = 0
    /\ epochs' = Append(epochs, Data(fs, 0))
    /\ hist' = Append(hist, [op |-> "rotate", line |-> <<>>, nrot |-> 1,
                             size |-> 0, lines |-> 0, via |-> via])
    /\ UNCHANGED << max_size, max_lines, max_count >>

\* mutant: the thresholds are checked, and the file rotated, before the write
DoWriteLinePreCheck(l) ==
    LET size1 == current_size + (Len(l) + 1)
        lines1 == current_lines + 1
        rot == SizeExceeded(size1) \/ LinesExceeded(lines1)
        f0 == IF rot THEN RotateFs(fs, max_count) ELSE fs
    IN  /\ fs' = AppendLine(f0, 0, l)
        /\ current_file' = Handle
        /\ current_size' = IF rot THEN Len(l) + 1 ELSE size1
        /\ current_lines' = IF rot THEN 1 ELSE lines1
        /\ epochs' = IF rot THEN Append(epochs, Data(fs, 0)) ELSE epochs
        /\ hist' = Append(hist, [op |-> "write_line", line |-> l,
                                 nrot |-> Len(epochs') - Len(epochs),
                                 size |-> size1, lines |-> lines1,
                                 via |-> "write_line"])
        /\ UNCHANGED << max_size, max_lines, max_count >>

\* LogRotator::write_line, including the rotation it may perform
DoWriteLine(l) ==
    LET wrote == current_file # None
        f1 == IF wrote THEN AppendLine(fs, 0, l) ELSE fs
        size1 == IF wrote THEN current_size + (Len(l) + 1) ELSE current_size
        lines1 == IF wrote THEN current_lines + 1 ELSE current_lines
        rot == SizeExceeded(size1) \/ LinesExceeded(lines1)
    IN  /\ fs' = IF rot THEN RotateFs(f1, max_count) ELSE f1
        /\ current_file' = IF rot THEN Handle ELSE current_file
        /\ current_size' = IF rot THEN 0 ELSE size1
        /\ current_lines' = IF rot THEN 0 ELSE lines1
        /\ epochs' = IF rot THEN Append(epochs, Data(f1, 0)) ELSE epochs
        /\ hist' = Append(hist, [op |-> "write_line", line |-> l,
                                 nrot |-> Len(epochs') - Len(epochs),
                                 size |-> size1, lines |-> lines1,
                                 via |-> "write_line"])
        /\ UNCHANGED << max_size, max_lines, max_count >>

----------------------------------------------------------------------------
(* A caller using the rotator directly, as the tests of main.rs do *)

New ==
    /\ pc = "init"
    /\ Construct
    /\ pc' = "open"
    /\ UNCHANGED << args_rotate, rotate_flag, line, initial >>
    /\ UNCHANGED << unserved, stepvars >>

WriteLine ==
    /\ pc = "open"
    /\ Len(hist) < MaxCalls
    /\ \E l \in Lines : DoWriteLine(l)
    /\ UNCHANGED << args_rotate, rotate_flag, line, pc, initial >>
    /\ UNCHANGED << unserved, stepvars >>

Rotate ==
    /\ pc = "open"
    /\ Len(hist) < MaxCalls
    /\ DoRotate("call")
    /\ UNCHANGED << args_rotate, rotate_flag, line, pc, initial >>
    /\ UNCHANGED << unserved, stepvars >>

Next == New \/ WriteLine \/ Rotate

Spec == Init /\ [][Next]_vars

----------------------------------------------------------------------------
(* main: construction, --rotate, and the loop over the input lines.  The   *)
(* SIGHUP handler runs asynchronously, so the loop body is split at its    *)
(* accesses to the shared flag.                                            *)

InitMain ==
    /\ args_rotate \in BOOLEAN
    /\ \E f0 \in InitialFiles :
           StartWith(f0, 0 .. MaxSizeArg, LineLimits, 0 .. MaxCountArg)

\* the request history after one more input line was written, the write
\* being followed (rotated) or not by a threshold rotation in the same call;
\* Some(2) is kept: a second line was written with the request unserved
AfterLine(u, rotated) ==
    IF u = None THEN None
    ELSE IF u[1] >= 1 THEN Some(2)
    ELSE IF rotated THEN None
    ELSE Some(u[1] + 1)

\* number of input lines main has written so far
LinesWritten == Cardinality({ k \in 1 .. Len(hist) : hist[k].op = "write_line" })

\* let mut rotator = LogRotator::new(..)?
MainNew ==
    /\ pc = "init"
    /\ Construct
    /\ pc' = "startup"
    /\ UNCHANGED << args_rotate, rotate_flag, line, initial >>
    /\ UNCHANGED << unserved, stepvars >>

\* mutant: --rotate is ignored
MainStartupNoRotate ==
    /\ pc = "startup"
    /\ pc' = "read"
    /\ UNCHANGED << fs, max_size, max_lines, max_count, current_file,
                    current_size, current_lines, hist, epochs, args_rotate,
                    rotate_flag, line, initial >>
    /\ UNCHANGED << unserved, stepvars >>

\* if args.rotate { rotator.rotate()?; }  followed by flag::register(SIGHUP, ..)
MainStartup ==
    /\ pc = "startup"
    /\ IF args_rotate
       THEN DoRotate("startup")
       ELSE UNCHANGED << fs, max_size, max_lines, max_count, current_file,
                         current_size, current_lines, hist, epochs >>
    /\ pc' = "read"
    /\ UNCHANGED << args_rotate, rotate_flag, line, initial >>
    /\ UNCHANGED << unserved, stepvars >>

\* the registered handler: stores true into the flag, at any moment
SigHup ==
    /\ pc \in { "read", "load", "rotate", "store", "write" }
    /\ ~rotate_flag \/ unserved = None
    /\ rotate_flag' = TRUE
    /\ unserved' = IF unserved = None THEN Some(0) ELSE unserved
    /\ UNCHANGED stepvars
    /\ UNCHANGED << fs, max_size, max_lines, max_count, current_file,
                    current_size, current_lines, args_rotate, line, pc,
                    initial, hist, epochs >>

\* for line in reader.lines() { let line = line?;
MainRead ==
    /\ pc = "read"
    /\ LinesWritten < MaxInput
    /\ \E l \in Lines : line' = l
    /\ pc' = "load"
    /\ UNCHANGED << fs, max_size, max_lines, max_count, current_file,
                    current_size, current_lines, args_rotate, rotate_flag,
                    initial, hist, epochs >>
    /\ UNCHANGED << unserved, stepvars >>

\* end of input: the loop ends and main returns Ok(())
MainEof ==
    /\ pc = "read"
    /\ pc' = "done"
    /\ UNCHANGED << fs, max_size, max_lines, max_count, current_file,
                    current_size, current_lines, args_rotate, rotate_flag,
                    line, initial, hist, epochs >>
    /\ UNCHANGED << unserved, stepvars >>

\* if rotate_flag.load(Ordering::Relaxed)
MainLoadFlag ==
    /\ pc = "load"
    /\ pc' = IF rotate_flag THEN "rotate" ELSE "write"
    /\ UNCHANGED << fs, max_size, max_lines, max_count, current_file,
                    current_size, current_lines, args_rotate, rotate_flag,
                    line, initial, hist, epochs >>
    /\ UNCHANGED << unserved, stepvars >>

\* rotator.rotate()?
MainRotate ==
    /\ pc = "rotate"
    /\ DoRotate("flag")
    /\ pc' = "store"
    /\ UNCHANGED << args_rotate, rotate_flag, line, initial >>
    /\ unserved' = IF unserved = Some(2) THEN unserved ELSE None
    /\ UNCHANGED stepvars

\* mutant: the flag is not cleared after the rotation
MainStoreFlagKeeps ==
    /\ pc = "store"
    /\ pc' = "write"
    /\ UNCHANGED << fs, max_size, max_lines, max_count, current_file,
                    current_size, current_lines, args_rotate, rotate_flag,
                    line, initial, hist, epochs >>
    /\ UNCHANGED << unserved, stepvars >>

\* rotate_flag.store(false, Ordering::Relaxed)
MainStoreFlag ==
    /\ pc = "store"
    /\ rotate_flag' = FALSE
    /\ pc' = "write"
    /\ UNCHANGED << fs, max_size, max_lines, max_count, current_file,
                    current_size, current_lines, args_rotate, line, initial,
                    hist, epochs >>
    /\ UNCHANGED << unserved, stepvars >>

\* rotator.write_line(&line)?
MainWrite ==
    /\ pc = "write"
    /\ DoWriteLine(line)
    /\ pc' = "read"
    /\ UNCHANGED << args_rotate, rotate_flag, line, initial >>
    /\ unserved' = AfterLine(unserved, Len(epochs') > Len(epochs))
    /\ UNCHANGED stepvars

NextMain ==
    \/ MainNew \/ MainStartup \/ SigHup \/ MainRead \/ MainEof
    \/ MainLoadFlag \/ MainRotate \/ MainStoreFlag \/ MainWrite

SpecMain == InitMain /\ [][NextMain]_vars

----------------------------------------------------------------------------
(* The calls executed step by step: every system call of new, write_line   *)
(* and rotate is one step, and a system call may fail, which makes the     *)
(* call return Err at that point ("?").  The caller holds on to the        *)
(* rotator after an Err.  The directory may hold backups left by earlier   *)
(* runs.                                                                   *)

MaxStepCalls == 2   \* calls made on one rotator, the failed ones included
MaxFailures == 1    \* failing system calls in one run

\* the directory with the identity of its files
Dir == [data |-> fs, at |-> inodes.at, next |-> inodes.next]

SetDir(d) ==
    /\ fs' = d.data
    /\ inodes' = [at |-> d.at, next |-> d.next]

\* fs::remove_file
DRemove(d, i) ==
    [d EXCEPT !.data = RemoveFile(d.data, i),
              !.at = [d.at EXCEPT ![i] = 0]]

\* fs::rename: the file object moves to the new path
DRename(d, from, to) ==
    [d EXCEPT !.data = Rename(d.data, from, to),
              !.at = [d.at EXCEPT ![to] = d.at[from], ![from] = 0]]

\* fs::copy: a new file object unless the target exists, which is overwritten
DCopy(d, from, to) ==
    IF Exists(d.data, to)
    THEN [d EXCEPT !.data = Copy(d.data, from, to)]
    ELSE [d EXCEPT !.data = Copy(d.data, from, to),
                   !.at = [d.at EXCEPT ![to] = d.next],
                   !.next = d.next + 1]

\* open with truncate(true), set_len(0): the same file object, now empty
DTruncate(d, i) == [d EXCEPT !.data = Truncate(d.data, i)]

\* open with create(true).append(true): a new file object only if none exists
DOpenAppend(d, i) ==
    IF Exists(d.data, i) THEN d
    ELSE [d EXCEPT !.data = OpenAppend(d.data, i),
                   !.at = [d.at EXCEPT ![i] = d.next],
                   !.next = d.next + 1]

\* one iteration of the loop of rotate
DShiftStep(d, i, n) ==
    IF Exists(d.data, i)
    THEN IF i = n THEN DRemove(d, i) ELSE DRename(d, i, i + 1)
    ELSE d

\* mutant: base_path is promoted to .1 by a rename
DPromoteByRename(d, from, to) == DRename(d, from, to)

\* the copy of base_path to .1 in rotate
DPromote(d, from, to) == DCopy(d, from, to)

\* mutant: the writer stays open while the files are moved
KeepWriter(h) == h

\* drop(writer)
CloseWriter(h) == h \ { "writer" }

\* what is known at the start of a call; rot is the directory at the start
\* of the rotation of that call
Snapshot ==
    [fs |-> fs, size |-> current_size, lines |-> current_lines,
     file |-> current_file, rot |-> fs]

StepBases == { None, Some(<<>>), Some(<<120, NL>>) }

BackupData(i) == << 200 + i, NL >>

InitSteps ==
    /\ \E f0 \in StepBases, B \in SUBSET (Paths \ {0}) :
           /\ initial = f0
           /\ fs = [i \in Paths |->
                       IF i = 0 THEN f0
                       ELSE IF i \in B THEN Some(BackupData(i)) ELSE None]
    /\ max_size \in { 0, 2 }
    /\ max_lines \in { None, Some(2) }
    /\ max_count \in 0 .. MaxCountArg
    /\ current_file = None
    /\ current_size = 0
    /\ current_lines = 0
    /\ args_rotate = FALSE
    /\ rotate_flag = FALSE
    /\ line = <<>>
    /\ pc = "init"
    /\ hist = <<>>
    /\ epochs = <<>>
    /\ unserved = None
    /\ rpc = "idle"
    /\ ri = 0
    /\ handles = {}
    /\ inodes = [at |-> [i \in Paths |-> IF fs[i] = None THEN 0 ELSE i + 1],
                 next |-> MaxCountArg + 3]
    /\ ret = "none"
    /\ failures = 0
    /\ pre = Snapshot
    /\ partial = FALSE

\* the variables no step of a call changes
fixed == << max_size, max_lines, max_count, args_rotate, rotate_flag,
            initial, unserved >>

\* the call in progress returns Ok(())
ReturnOk(rotated) ==
    /\ pc' = "open"
    /\ rpc' = "idle"
    /\ ret' = "ok"
    /\ hist' = Append(hist,
           IF pc = "in_rotate"
           THEN [op |-> "rotate", line |-> <<>>, nrot |-> 1,
                 size |-> 0, lines |-> 0, via |-> "call"]
           ELSE [op |-> "write_line", line |-> line,
                 nrot |-> IF rotated THEN 1 ELSE 0,
                 size |-> IF pre.file # None
                          THEN pre.size + (Len(line) + 1) ELSE pre.size,
                 lines |-> IF pre.file # None
                           THEN pre.lines + 1 ELSE pre.lines,
                 via |-> "write_line"])

\* let file = OpenOptions::new().create(true).append(true).open(path)?;
\* let metadata = file.metadata()?;
StepNewOpen ==
    /\ pc = "init"
    /\ SetDir(DOpenAppend(Dir, 0))
    /\ handles' = { "writer" }
    /\ pc' = "in_new"
    /\ rpc' = IF Len(Data(fs', 0)) > 0 THEN "scan_open" ELSE "build"
    /\ pre' = Snapshot
    /\ UNCHANGED << current_file, current_size, current_lines, line, hist,
                    epochs, ri, ret, failures, partial, fixed >>

\* let mut reader = BufReader::new(File::open(path)?);
StepNewScanOpen ==
    /\ rpc = "scan_open"
    /\ handles' = handles \cup { "reader" }
    /\ rpc' = "scan"
    /\ UNCHANGED << fs, inodes, current_file, current_size, current_lines,
                    line, pc, hist, epochs, ri, ret, failures, pre, partial,
                    fixed >>

\* while reader.read_until(..)? > 0 { .. }  and the reader dropped
StepNewScan ==
    /\ rpc = "scan"
    /\ handles' = handles \ { "reader" }
    /\ rpc' = "build"
    /\ UNCHANGED << fs, inodes, current_file, current_size, current_lines,
                    line, pc, hist, epochs, ri, ret, failures, pre, partial,
                    fixed >>

\* Ok(Self { .. })
StepNewBuild ==
    /\ rpc = "build"
    /\ current_file' = Handle
    /\ current_size' = Len(Data(fs, 0))
    /\ current_lines' = CountLines(Data(fs, 0))
    /\ pc' = "open"
    /\ rpc' = "idle"
    /\ ret' = "ok"
    /\ UNCHANGED << fs, inodes, handles, line, hist, epochs, ri, failures,
                    pre, partial, fixed >>

\* the caller calls write_line(l)
CallWriteLine ==
    /\ pc = "open" /\ rpc = "idle"
    /\ Len(hist) + failures < MaxStepCalls
    /\ \E l \in Lines : line' = l
    /\ pc' = "in_write_line"
    /\ rpc' = "write"
    /\ ret' = "none"
    /\ pre' = Snapshot
    /\ UNCHANGED << fs, inodes, handles, current_file, current_size,
                    current_lines, hist, epochs, ri, failures, partial,
                    fixed >>

\* write_line up to the threshold check: the write happens only if
\* current_file is Some
StepWrite ==
    /\ rpc = "write"
    /\ LET wrote == current_file # None
           f1 == IF wrote THEN AppendLine(fs, 0, line) ELSE fs
           size1 == IF wrote THEN current_size + (Len(line) + 1)
                    ELSE current_size
           lines1 == IF wrote THEN current_lines + 1 ELSE current_lines
           rot == SizeExceeded(size1) \/ LinesExceeded(lines1)
       IN  /\ fs' = f1
           /\ current_size' = size1
           /\ current_lines' = lines1
           /\ IF rot
              THEN /\ rpc' = "take"
                   /\ UNCHANGED << pc, ret, hist >>
              ELSE ReturnOk(FALSE)
    /\ UNCHANGED << inodes, handles, current_file, line, epochs, ri,
                    failures, pre, partial, fixed >>

\* the caller calls rotate()
CallRotate ==
    /\ pc = "open" /\ rpc = "idle"
    /\ Len(hist) + failures < MaxStepCalls
    /\ pc' = "in_rotate"
    /\ rpc' = "take"
    /\ ret' = "none"
    /\ pre' = Snapshot
    /\ UNCHANGED << fs, inodes, handles, current_file, current_size,
                    current_lines, line, hist, epochs, ri, failures, partial,
                    fixed >>

\* if let Some(mut writer) = self.current_file.take() { flush; drop }
StepTake ==
    /\ rpc = "take"
    /\ current_file' = None
    /\ handles' = CloseWriter(handles)
    /\ epochs' = Append(epochs, Data(fs, 0))
    /\ pre' = [pre EXCEPT !.rot = fs]
    /\ rpc' = "sync_open"
    /\ UNCHANGED << fs, inodes, current_size, current_lines, line, pc, hist,
                    ri, ret, failures, partial, fixed >>

\* let file = std::fs::File::open(&self.base_path)?;
StepSyncOpen ==
    /\ rpc = "sync_open"
    /\ handles' = handles \cup { "sync" }
    /\ rpc' = "sync"
    /\ UNCHANGED << fs, inodes, current_file, current_size, current_lines,
                    line, pc, hist, epochs, ri, ret, failures, pre, partial,
                    fixed >>

\* file.sync_all()?; drop(file); sleep; the loop is entered at max_count
StepSync ==
    /\ rpc = "sync"
    /\ handles' = handles \ { "sync" }
    /\ ri' = max_count
    /\ rpc' = IF max_count >= 1 THEN "loop" ELSE "copy"
    /\ UNCHANGED << fs, inodes, current_file, current_size, current_lines,
                    line, pc, hist, epochs, ret, failures, pre, partial,
                    fixed >>

\* one iteration of for i in (1..=self.max_count).rev()
StepShift ==
    /\ rpc = "loop"
    /\ SetDir(DShiftStep(Dir, ri, max_count))
    /\ ri' = ri - 1
    /\ rpc' = IF ri - 1 >= 1 THEN "loop" ELSE "copy"
    /\ UNCHANGED << handles, current_file, current_size, current_lines,
                    line, pc, hist, epochs, ret, failures, pre, partial,
                    fixed >>

\* if Path::new(&self.base_path).exists() { fs::copy(base_path, base_path.1)?
StepCopy ==
    /\ rpc = "copy"
    /\ IF Exists(fs, 0)
       THEN /\ SetDir(DPromote(Dir, 0, 1))
            /\ rpc' = "trunc_open"
       ELSE /\ UNCHANGED << fs, inodes >>
            /\ rpc' = "reopen"
    /\ UNCHANGED << handles, current_file, current_size, current_lines,
                    line, pc, hist, epochs, ri, ret, failures, pre, partial,
                    fixed >>

\* let file = OpenOptions::new().write(true).truncate(true).open(base_path)?;
StepTruncOpen ==
    /\ rpc = "trunc_open"
    /\ SetDir(DTruncate(Dir, 0))
    /\ handles' = handles \cup { "trunc" }
    /\ rpc' = "set_len"
    /\ UNCHANGED << current_file, current_size, current_lines, line, pc,
                    hist, epochs, ri, ret, failures, pre, partial, fixed >>

\* file.set_len(0)?; drop(file);
StepSetLen ==
    /\ rpc = "set_len"
    /\ SetDir(DTruncate(Dir, 0))
    /\ handles' = handles \ { "trunc" }
    /\ rpc' = "reopen"
    /\ UNCHANGED << current_file, current_size, current_lines, line, pc,
                    hist, epochs, ri, ret, failures, pre, partial, fixed >>

\* let file = OpenOptions::new().create(true).append(true).open(base_path)?;
\* self.current_file = Some(..); the counters are reset; Ok(())
StepReopen ==
    /\ rpc = "reopen"
    /\ SetDir(DOpenAppend(Dir, 0))
    /\ handles' = handles \cup { "writer" }
    /\ current_file' = Handle
    /\ current_size' = 0
    /\ current_lines' = 0
    /\ ReturnOk(TRUE)
    /\ UNCHANGED << line, epochs, ri, failures, pre, partial, fixed >>

\* the positions inside rotate()
RotatePositions ==
    { "take", "sync_open", "sync", "loop", "copy", "trunc_open", "set_len",
      "reopen" }

\* the positions whose system call can fail
CanFail ==
    \/ pc = "init"
    \/ rpc \in { "scan_open", "scan", "sync_open", "sync", "trunc_open",
                 "set_len", "reopen" }
    \/ rpc = "write" /\ current_file # None
    \/ rpc = "take" /\ current_file # None
    \/ rpc = "loop" /\ Exists(fs, ri)
    \/ rpc = "copy" /\ Exists(fs, 0)

\* the system call of the current position fails: the call returns Err, the
\* handles local to the call are dropped.  A failing call has no effect,
\* except fs::copy, which may leave a target holding only the first bytes.
\* writer.flush()? fails after current_file.take(), with the writer dropped
StepFail ==
    /\ failures < MaxFailures
    /\ CanFail
    /\ failures' = failures + 1
    /\ ret' = IF rpc \in RotatePositions THEN "err_rotate" ELSE "err"
    /\ rpc' = "idle"
    /\ pc' = IF pc \in { "init", "in_new" } THEN "failed" ELSE "open"
    /\ handles' = IF pc \in { "init", "in_new" } THEN {}
                  ELSE IF rpc = "take" THEN CloseWriter(handles)
                  ELSE handles \ { "reader", "sync", "trunc" }
    /\ current_file' = IF rpc = "take" THEN None ELSE current_file
    /\ pre' = IF rpc = "take" THEN [pre EXCEPT !.rot = fs] ELSE pre
    /\ \/ UNCHANGED << fs, inodes, partial >>
       \/ /\ rpc = "copy"
          /\ \E k \in 0 .. (Len(Data(fs, 0)) - 1) :
                 LET c == DCopy(Dir, 0, 1) IN
                 SetDir([c EXCEPT !.data =
                     [c.data EXCEPT ![1] = Some(SubSeq(Data(fs, 0), 1, k))]])
          /\ partial' = TRUE
    /\ UNCHANGED << current_size, current_lines, line, hist, epochs, ri,
                    fixed >>

NextSteps ==
    \/ StepNewOpen \/ StepNewScanOpen \/ StepNewScan \/ StepNewBuild
    \/ CallWriteLine \/ StepWrite \/ CallRotate
    \/ StepTake \/ StepSyncOpen \/ StepSync \/ StepShift \/ StepCopy
    \/ StepTruncOpen \/ StepSetLen \/ StepReopen \/ StepFail

SpecSteps == InitSteps /\ [][NextSteps]_vars

----------------------------------------------------------------------------
(* Vocabulary of the properties, computed from the recorded history *)

Constructed == pc # "init"

Min(a, b) == IF a < b THEN a ELSE b

\* the lines, each newline-terminated, as one byte sequence
RECURSIVE Flatten(_)
Flatten(ls) == IF ls = <<>> THEN <<>> ELSE Head(ls) \o <<NL>> \o Flatten(Tail(ls))

\* the lines written by calls a..b of the history, in call order
RECURSIVE LinesOf(_, _)
LinesOf(a, b) ==
    IF a > b THEN <<>>
    ELSE IF hist[a].op = "write_line"
         THEN << hist[a].line >> \o LinesOf(a + 1, b)
         ELSE LinesOf(a + 1, b)

Written == LinesOf(1, Len(hist))

InitData == IF initial = None THEN <<>> ELSE initial[1]

\* everything that was ever put into base_path, in order
Stream == InitData \o Flatten(Written)

Rotations == Len(epochs)

Backups == { i \in Paths \ {0} : Exists(fs, i) }

LastCall == hist[Len(hist)]

OnlyWriteLines == \A k \in 1 .. Len(hist) : hist[k].op = "write_line"

\* index of the last call before call k that rotated (0 if there is none)
LastRotBefore(k) ==
    LET S == { j \in 1 .. (k - 1) : hist[j].nrot > 0 }
    IN  IF S = {} THEN 0 ELSE CHOOSE j \in S : \A m \in S : m <= j

\* what base_path must hold once call k has written, before call k rotates
ActiveAt(k) ==
    (IF LastRotBefore(k) = 0 THEN InitData ELSE <<>>)
        \o Flatten(LinesOf(LastRotBefore(k) + 1, k))

NewlineCount(data) == Cardinality({ j \in 1 .. Len(data) : data[j] = NL })

IsSuffix(s, t) ==
    /\ Len(s) <= Len(t)
    /\ s = SubSeq(t, Len(t) - Len(s) + 1, Len(t))

----------------------------------------------------------------------------
(* C1: a rotator started on an empty or absent file that only receives    *)
(* write_line calls, with the cumulative bytes (length + 1 per line) at   *)
(* most max_size (when max_size > 0) and the number of lines below         *)
(* max_lines (when set), never rotates: base_path.1 is not created and     *)
(* base_path holds exactly the written lines, newline-terminated, in call  *)
(* order.                                                                  *)
BelowThresholds ==
    /\ max_size > 0 => Len(Flatten(Written)) <= max_size
    /\ max_lines # None => Len(Written) < max_lines[1]

C1_NoRotationBelowThresholds ==
    (Constructed /\ InitData = <<>> /\ OnlyWriteLines /\ BelowThresholds)
        => /\ Rotations = 0
           /\ Backups = {}
           /\ fs[0] = Some(Flatten(Written))

C1_Witness ==
    /\ Constructed /\ InitData = <<>> /\ OnlyWriteLines /\ BelowThresholds
    /\ max_size > 0 /\ max_lines # None
    /\ Len(hist) = 2 /\ hist[1].line # hist[2].line
    /\ Len(Flatten(Written)) = max_size
    /\ fs[0] = Some(Flatten(Written))

(* C2: with max_size > 0, a write_line call that brings current_size      *)
(* strictly above max_size rotates exactly once inside the call, after the *)
(* line was written: on return base_path.1 ends with that line, base_path  *)
(* is empty, and every other backup holds content archived by an earlier   *)
(* rotation.                                                               *)
EndsWith(data, tail) == IsSuffix(tail, data)

C2_SizeRotationInSameCall ==
    (Constructed /\ hist # <<>> /\ LastCall.op = "write_line"
       /\ max_size > 0 /\ Len(ActiveAt(Len(hist))) > max_size)
        => /\ LastCall.nrot = 1
           /\ fs[0] = Some(<<>>)
           /\ Exists(fs, 1)
           /\ Data(fs, 1) = ActiveAt(Len(hist))
           /\ EndsWith(Data(fs, 1), LastCall.line \o <<NL>>)
           /\ \A i \in Backups \ {1} :
                  \E k \in 1 .. (Rotations - 1) : Data(fs, i) = epochs[k]

C2_Witness ==
    /\ Constructed /\ Len(hist) >= 2 /\ LastCall.op = "write_line"
    /\ hist[Len(hist) - 1].op = "write_line" /\ hist[Len(hist) - 1].nrot = 0
    /\ max_size > 0 /\ max_lines = None
    /\ Len(ActiveAt(Len(hist))) > max_size
    /\ LastCall.nrot = 1
    /\ fs[0] = Some(<<>>)

(* C3: with max_lines = L set, size rotation disabled and an empty file at *)
(* the start, write_line rotates exactly in the call that writes the L-th  *)
(* line since the last rotation: base_path.1 then holds exactly those L    *)
(* lines in order, and the line written next starts the fresh base_path.   *)

\* the lines written since the last rotation, up to and including call k
SinceRotation(k) == LinesOf(LastRotBefore(k) + 1, k)

LineRotationAt(threshold) ==
    LET n == Len(hist)
        mine == SinceRotation(n)
    IN  /\ LastCall.nrot = 1 <=> Len(mine) = threshold
        /\ LastCall.nrot = 1 =>
               /\ fs[1] = Some(Flatten(mine))
               /\ fs[0] = Some(<<>>)
        /\ (LastCall.nrot = 0 /\ LastRotBefore(n) = n - 1) =>
               fs[0] = Some(LastCall.line \o <<NL>>)

LineRotationCase ==
    /\ Constructed /\ InitData = <<>>
    /\ max_size = 0 /\ max_lines # None
    /\ hist # <<>> /\ LastCall.op = "write_line"

\* the claim as stated, for every L that --lines accepts
C3_Original == LineRotationCase => LineRotationAt(max_lines[1])

\* as amended: for L >= 1 as stated; with L = 0 every write_line call
\* rotates, so the rotation comes with the first line since the last one
C3_LineRotationAtLthLine ==
    LineRotationCase =>
        LineRotationAt(IF max_lines[1] = 0 THEN 1 ELSE max_lines[1])

C3_Witness ==
    /\ LineRotationCase /\ max_lines = Some(2) /\ OnlyWriteLines
    /\ Len(hist) = 3
    /\ hist[1].nrot = 0 /\ hist[2].nrot = 1 /\ hist[3].nrot = 0
    /\ hist[1].line # hist[2].line
    /\ fs[1] = Some(Flatten(<< hist[1].line, hist[2].line >>))
    /\ fs[0] = Some(Flatten(<< hist[3].line >>))

(* C4: for every retention count N (any non-negative integer) and every    *)
(* k > N, after k successful rotations starting with no backups exactly N  *)
(* backups exist, base_path.1 .. base_path.N, and no base_path.(N+1).      *)
C4_ExactlyNBackups ==
    (Constructed /\ Rotations > max_count) => Backups = 1 .. max_count

(* C5: after any sequence of successful rotations starting with no         *)
(* backups, for every i in 1 .. min(rotations, retention count),           *)
(* base_path.i holds exactly the content the active file had at the i-th   *)
(* most recent rotation.                                                   *)
C5_BackupsAreRecentEpochs ==
    Constructed =>
        \A i \in 1 .. Min(Rotations, max_count) :
            /\ Exists(fs, i)
            /\ Data(fs, i) = epochs[Rotations - i + 1]
            /\ Data(fs, i) = ActiveAt(CHOOSE k \in 1 .. Len(hist) :
                   /\ hist[k].nrot = 1
                   /\ Cardinality({ j \in k .. Len(hist) : hist[j].nrot = 1 }) = i)

C5_Witness ==
    /\ Constructed /\ max_count = 2 /\ Rotations = 3
    /\ epochs[1] # epochs[2] /\ epochs[2] # epochs[3] /\ epochs[1] # epochs[3]
    /\ fs[1] = Some(epochs[3])
    /\ fs[2] = Some(epochs[2])

(* C6: constructed on an existing file with M newline-terminated lines,    *)
(* max_lines = L and size rotation disabled, a rotator that only receives  *)
(* write_line calls rotates for the first time in the call that makes M    *)
(* plus the number of new lines equal to L; construction does not rotate.  *)
SeededCase ==
    /\ Constructed /\ initial # None
    /\ max_size = 0 /\ max_lines # None
    /\ OnlyWriteLines

NoRotationBefore(k) == \A j \in 1 .. (k - 1) : hist[j].nrot = 0

ConstructionDoesNotRotate ==
    hist = <<>> => /\ Rotations = 0
                   /\ Backups = {}
                   /\ fs[0] = Some(InitData)

\* the claim as stated, for every M and L
C6_Original ==
    SeededCase =>
        /\ ConstructionDoesNotRotate
        /\ \A k \in 1 .. Len(hist) :
               NoRotationBefore(k) =>
                   (hist[k].nrot = 1 <=> NewlineCount(InitData) + k = max_lines[1])

\* as amended: as stated when M < L; when M >= L the first write_line call
\* rotates
C6_FirstRotationSeededFromDisk ==
    SeededCase =>
        /\ ConstructionDoesNotRotate
        /\ \A k \in 1 .. Len(hist) :
               NoRotationBefore(k) =>
                   IF NewlineCount(InitData) < max_lines[1]
                   THEN hist[k].nrot = 1 <=>
                            NewlineCount(InitData) + k = max_lines[1]
                   ELSE k = 1 /\ hist[k].nrot = 1

C6_Witness ==
    /\ SeededCase /\ max_lines = Some(3)
    /\ NewlineCount(InitData) = 1
    /\ Len(hist) = 2
    /\ hist[1].nrot = 0 /\ hist[2].nrot = 1
    /\ fs[1] = Some(InitData \o Flatten(Written))

(* C8: whenever no call is in progress, current_size is the byte length of *)
(* the file at base_path and current_lines is the number of newline bytes  *)
(* in it, whatever the initial content (an unterminated last line          *)
(* included) and whatever write_line and rotate calls were made.           *)
C8_CountersMatchFile ==
    Constructed =>
        /\ Exists(fs, 0)
        /\ current_size = Len(Data(fs, 0))
        /\ current_lines = NewlineCount(Data(fs, 0))

C8_Witness ==
    /\ Constructed
    /\ InitData # <<>> /\ InitData[Len(InitData)] # NL
    /\ Len(hist) >= 2 /\ Rotations = 0
    /\ current_lines = NewlineCount(InitData) + Len(hist)
    /\ current_lines >= 3
    /\ current_size = Len(Stream)

(* C10: rotation loses, duplicates and reorders nothing: the existing      *)
(* files base_path.N, .., base_path.1, base_path concatenated in that      *)
(* order are a contiguous suffix of the initial content followed by all    *)
(* written lines in call order, and what is missing is exactly the content *)
(* of the backups that fell off the retention window.                      *)

\* base_path.i .. base_path.1 (those that exist), oldest first
RECURSIVE BackupChain(_)
BackupChain(i) ==
    IF i < 1 THEN <<>>
    ELSE (IF Exists(fs, i) THEN Data(fs, i) ELSE <<>>) \o BackupChain(i - 1)

\* the content archived by rotations a..b, oldest first
RECURSIVE EpochChain(_, _)
EpochChain(a, b) ==
    IF a > b THEN <<>> ELSE epochs[a] \o EpochChain(a + 1, b)

Retained == BackupChain(max_count) \o Data(fs, 0)

C10_NoLineLostOrReordered ==
    Constructed =>
        /\ IsSuffix(Retained, Stream)
        /\ Stream = EpochChain(1, Rotations - Min(Rotations, max_count))
                        \o Retained

C10_Witness ==
    /\ Constructed /\ max_count = 1 /\ Rotations = 2
    /\ InitData # <<>>
    /\ Len(Written) >= 2
    /\ epochs[1] # <<>> /\ epochs[2] # <<>> /\ Data(fs, 0) # <<>>
    /\ Stream = epochs[1] \o Retained

(* C7: when main starts with --rotate on a non-empty existing file, then   *)
(* after the startup rotation and before any input line is written         *)
(* base_path.1 holds exactly the pre-existing content and base_path is     *)
(* empty; and every rotate() call moves the whole content of the active    *)
(* file, content older than the construction included, into base_path.1.   *)
StartupRotated ==
    /\ pc \notin { "init", "startup" }
    /\ args_rotate
    /\ Len(hist) = 1

C7_StartupRotateMovesExisting ==
    /\ (StartupRotated /\ InitData # <<>>) =>
           /\ LastCall.op = "rotate" /\ LastCall.via = "startup"
           /\ fs[1] = Some(InitData)
           /\ fs[0] = Some(<<>>)
    /\ (Constructed /\ hist # <<>> /\ LastCall.op = "rotate") =>
           /\ fs[1] = Some(ActiveAt(Len(hist)))
           /\ fs[0] = Some(<<>>)

C7_Witness ==
    /\ StartupRotated /\ pc = "load"
    /\ Len(InitData) >= 3
    /\ fs[1] = Some(InitData)
    /\ fs[0] = Some(<<>>)

(* C9: if the rotate flag is true when the loop of main has picked up an   *)
(* input line, rotate() runs before that line is written, whatever the     *)
(* thresholds, and the flag is then stored false; the line is the first    *)
(* line of the fresh base_path and is not in the content that this         *)
(* rotation moved to base_path.1.                                          *)
FlagRotationStep ==
    /\ (pc = "load" /\ rotate_flag /\ pc' # pc) => pc' = "rotate"
    /\ (pc = "rotate" /\ pc' # pc) =>
           /\ pc' = "store"
           /\ Len(hist') = Len(hist) + 1
           /\ hist'[Len(hist')].op = "rotate"
           /\ Rotations' = Rotations + 1
           /\ IsSuffix(Data(fs', 1), Stream)
           /\ fs'[1] = fs[0]
           /\ fs'[0] = Some(<<>>)
    /\ (pc = "store" /\ pc' # pc) =>
           /\ pc' = "write"
           /\ ~rotate_flag'
           /\ fs' = fs /\ hist' = hist
    /\ (pc = "write" /\ pc' # pc /\ hist # <<>> /\ LastCall.via = "flag") =>
           /\ fs[0] = Some(<<>>)
           /\ hist'[Len(hist')].op = "write_line"
           /\ hist'[Len(hist')].line = line
           /\ IF hist'[Len(hist')].nrot = 0
              THEN fs'[0] = Some(line \o <<NL>>) /\ fs'[1] = fs[1]
              ELSE fs'[1] = Some(line \o <<NL>>) /\ fs'[0] = Some(<<>>)

C9_FlagRotatesBeforeWrite == [][FlagRotationStep]_vars

C9_Witness ==
    /\ pc = "read" /\ Len(hist) = 3
    /\ max_size = 0 /\ max_lines = None
    /\ hist[1].op = "write_line"
    /\ hist[2].op = "rotate" /\ hist[2].via = "flag"
    /\ hist[3].op = "write_line"
    /\ ~rotate_flag
    /\ InitData # <<>>
    /\ fs[1] = Some(InitData \o hist[1].line \o <<NL>>)
    /\ fs[0] = Some(hist[3].line \o <<NL>>)

(* C11: with max_size > 0 and max_lines set, a write_line call rotates if   *)
(* and only if after its write the size is above max_size or the line      *)
(* count has reached max_lines, and it rotates at most once even when both *)
(* hold: a write that brings the size exactly to max_size does not rotate, *)
(* a write that brings the line count exactly to max_lines does.           *)
BothLimitsCase ==
    /\ Constructed
    /\ max_size > 0 /\ max_lines # None
    /\ hist # <<>> /\ LastCall.op = "write_line"

\* the file that the last call wrote to, as it was right after the write
WrittenFile == ActiveAt(Len(hist))

C11_RotatesIffLimitCrossed ==
    BothLimitsCase =>
        /\ LastCall.nrot \in { 0, 1 }
        /\ LastCall.nrot = 1 <=>
               \/ Len(WrittenFile) > max_size
               \/ NewlineCount(WrittenFile) >= max_lines[1]
        /\ LastCall.size = Len(WrittenFile)
        /\ LastCall.lines = NewlineCount(WrittenFile)
        /\ (Len(WrittenFile) = max_size
              /\ NewlineCount(WrittenFile) < max_lines[1]) => LastCall.nrot = 0
        /\ NewlineCount(WrittenFile) = max_lines[1] => LastCall.nrot = 1
        /\ Rotations = Cardinality({ k \in 1 .. Len(hist) : hist[k].nrot = 1 })

C11_Witness ==
    /\ BothLimitsCase
    /\ Len(hist) = 2 /\ OnlyWriteLines
    /\ hist[1].nrot = 0 /\ Len(ActiveAt(1)) = max_size
    /\ Len(WrittenFile) > max_size
    /\ NewlineCount(WrittenFile) = max_lines[1]
    /\ LastCall.nrot = 1 /\ Rotations = 1

(* C16: the overshoot is bounded by one line: whenever write_line is       *)
(* entered, current_size <= max_size (when max_size > 0) and               *)
(* current_lines < max_lines (when set), so every backup produced by a     *)
(* threshold rotation, without its final line, has at most max_size bytes  *)
(* and fewer than max_lines lines, for every initial content.              *)
WithinLimits(data) ==
    /\ max_size > 0 => Len(data) <= max_size
    /\ max_lines # None => NewlineCount(data) < max_lines[1]

\* the file of call k right before call k wrote its line
BeforeWrite(k) ==
    SubSeq(ActiveAt(k), 1, Len(ActiveAt(k)) - (Len(hist[k].line) + 1))

BoundedOvershoot ==
    /\ max_size > 0 => current_size <= max_size
    /\ max_lines # None => current_lines < max_lines[1]
    /\ WithinLimits(Data(fs, 0))
    /\ \A k \in 1 .. Len(hist) :
           (hist[k].op = "write_line" /\ hist[k].nrot = 1) =>
               WithinLimits(BeforeWrite(k))

\* the claim as stated, for every initial content
C16_Original == Constructed => BoundedOvershoot

\* as amended: for an initial content that is itself within the limits
C16_OvershootBoundedByOneLine ==
    (Constructed /\ WithinLimits(InitData)) => BoundedOvershoot

C16_Witness ==
    /\ Constructed /\ WithinLimits(InitData) /\ InitData # <<>>
    /\ max_size > 0 /\ max_lines # None
    /\ Len(hist) = 3 /\ OnlyWriteLines
    /\ hist[2].nrot = 1 /\ hist[1].nrot = 0 /\ hist[3].nrot = 0
    /\ Len(ActiveAt(2)) > max_size
    /\ Len(BeforeWrite(2)) = max_size

(* C15: no rotate request is lost: whenever the SIGHUP handler sets the    *)
(* flag, whatever the loop of main is doing at that moment, a rotation     *)
(* starts after that moment and before the second following input line is  *)
(* written.                                                                *)
C15_NoRequestLost == unserved # Some(2)

(* C12: during rotate(), for every retention count and every set of       *)
(* existing backups (gaps included), no rename and no copy targets a path  *)
(* where a file exists: the only backup content a rotation discards is     *)
(* that of base_path.retention_count, removed by the explicit delete.      *)

\* the step is the rename of the loop / the fs::copy (complete or not)
IsRenameStep == rpc = "loop" /\ rpc' # "idle" /\ Exists(fs, ri) /\ ri # max_count
IsCopyStep ==
    /\ rpc = "copy" /\ Exists(fs, 0)
    /\ rpc' = "trunc_open" \/ (~partial /\ partial')
IsDeleteStep == rpc = "loop" /\ rpc' # "idle" /\ Exists(fs, ri) /\ ri = max_count

\* the file at path i before the step is still somewhere after the step
Survives(i) ==
    \E j \in Paths : inodes'.at[j] = inodes.at[i] /\ fs'[j] = fs[i]

NoClobberStep ==
    /\ IsRenameStep => ~Exists(fs, ri + 1)
    /\ IsCopyStep => ~Exists(fs, 1)
    /\ rpc \in RotatePositions =>
           \A i \in Paths \ {0} :
               Exists(fs, i) => \/ Survives(i)
                                \/ IsDeleteStep /\ i = max_count

C12_NoRenameOrCopyOntoExisting == [][NoClobberStep]_vars

\* the same restricted to a retention count of at least 1, which holds
PositiveCountNeverClobbers == [][max_count >= 1 => NoClobberStep]_vars

(* C13: the Rotating state (current_file absent) is never observable       *)
(* between calls: after every return from new, write_line or rotate,       *)
(* current_file holds an open handle on base_path.                         *)
BetweenCalls == pc = "open" /\ rpc = "idle"

C13_OpenBetweenCalls ==
    BetweenCalls => /\ current_file # None
                    /\ "writer" \in handles

(* C14: write_line never reports success for a line it did not write: in   *)
(* every reachable state of the rotator, states reached after a call       *)
(* returned an error included, a write_line call that returns Ok has       *)
(* appended the line and a newline to the active file and incremented      *)
(* both counters.                                                          *)
WriteLineReturnedOk ==
    /\ BetweenCalls /\ ret = "ok"
    /\ hist # <<>> /\ LastCall.op = "write_line"

C14_OkMeansWritten ==
    WriteLineReturnedOk =>
        LET want == Data(pre.fs, 0) \o line \o <<NL>> IN
        /\ IF LastCall.nrot = 0
           THEN fs[0] = Some(want)
           ELSE fs[1] = Some(want) /\ fs[0] = Some(<<>>)
        /\ LastCall.size = pre.size + Len(line) + 1
        /\ LastCall.lines = pre.lines + 1

\* the same for a rotator whose current_file was present when the call
\* began, which holds
OkMeansWrittenWhenOpen ==
    (WriteLineReturnedOk /\ pre.file # None) =>
        LET want == Data(pre.fs, 0) \o line \o <<NL>> IN
        IF LastCall.nrot = 0
        THEN fs[0] = Some(want)
        ELSE fs[1] = Some(want) /\ fs[0] = Some(<<>>)

(* C17: rotate() preserves the identity of the active file: in every step  *)
(* of every rotation the file at base_path is neither deleted nor renamed, *)
(* its content is copied to base_path.1 and then its length is set to      *)
(* zero, so base_path exists and is the same file object in every state    *)
(* after construction.                                                     *)
AfterConstruction == pc \in { "open", "in_write_line", "in_rotate" }

IdentityStep ==
    AfterConstruction =>
        /\ Exists(fs, 0) /\ Exists(fs', 0)
        /\ inodes.at[0] # 0
        /\ inodes'.at[0] = inodes.at[0]
        /\ (rpc \in RotatePositions /\ fs'[0] # fs[0]) =>
               /\ fs'[0] = Some(<<>>)
               /\ fs[1] = fs[0]

C17_BasePathKeepsIdentity == [][IdentityStep]_vars

\* a completed rotation of a non-empty file that was on disk before the
\* rotator was constructed: still the same file object, now empty
C17_Witness ==
    /\ BetweenCalls /\ ret = "ok"
    /\ hist # <<>> /\ LastCall.nrot = 1
    /\ initial # None
    /\ inodes.at[0] = 1
    /\ fs[0] = Some(<<>>)
    /\ Len(Data(fs, 1)) > 0

(* C18: if rotate() stops with a failure (or the process crashes) after    *)
(* any of its filesystem steps, every file that then exists is intact:     *)
(* each existing backup holds the complete content of one file as it was   *)
(* before the rotation began, the active file is either unchanged or       *)
(* empty, and no pre-rotation content other than that of                   *)
(* base_path.retention_count is missing from the set of files.  Stated     *)
(* for failures between whole steps, a copy cut short left aside.          *)
StoppedInRotation ==
    /\ ~partial
    /\ \/ ret = "err_rotate"
       \/ rpc \in RotatePositions \ { "take" }

IntactAfterStop ==
    /\ \A i \in Paths \ {0} :
           Exists(fs, i) => \E j \in Paths : pre.rot[j] = fs[i]
    /\ fs[0] \in { pre.rot[0], Some(<<>>) }
    /\ \A j \in Paths :
           (Exists(pre.rot, j) /\ ~(j >= 1 /\ j = max_count)) =>
               \E i \in Paths : fs[i] = pre.rot[j]

C18_FilesIntactAfterFailedRotate == StoppedInRotation => IntactAfterStop

\* the same restricted to a retention count of at least 1, which holds
PositiveCountIntactAfterStop ==
    (StoppedInRotation /\ max_count >= 1) => IntactAfterStop

(* C19: handle exclusivity and step order in rotate(): the writer handle   *)
(* is closed before the first delete, rename, copy or truncate, the fresh  *)
(* append handle is opened only after the last of them, and outside the    *)
(* line count of new() no two handles are open on base_path at once.       *)
MovingFiles ==
    rpc \in { "sync_open", "sync", "loop", "copy", "trunc_open", "set_len",
              "reopen" }

WriterClosedWhileMoving == MovingFiles => "writer" \notin handles

C19_Original ==
    /\ WriterClosedWhileMoving
    /\ Cardinality(handles) <= 1

C19_WriterClosedAroundMoves ==
    /\ WriterClosedWhileMoving
    /\ pc # "in_new" => Cardinality(handles) <= 1

\* a rotation begun with the writer open has reached the truncation of
\* base_path, whose handle is the only one open
C19_Witness ==
    /\ rpc = "set_len"
    /\ pre.file # None
    /\ handles = { "trunc" }

====
